---- MODULE Spec2Model ----
(***************************************************************************)
(* A model of the three command line tools of llm-repo-code-chunker:       *)
(*   - llm_text_compressor.py: main and its helpers (Spec, SpecSplit,      *)
(*     SpecAlloc);                                                         *)
(*   - llm_codebase_compressor.py: compress_repository (SpecRepo).         *)
(*   - llm_code_explainer.py: main (SpecExplain).                         *)
(*                                                                         *)
(* A text is a sequence of one-character strings.  A token is a non-empty  *)
(* text; an encoding maps a text to a sequence of tokens whose             *)
(* concatenation is the text.  The service that answers a completion       *)
(* request is outside the program: its answer is a nondeterministic        *)
(* choice among the outcomes of Outcomes.                                  *)
(***************************************************************************)
EXTENDS Integers, Sequences, FiniteSets, TLC

\* ------------------------------------------------------------- bounds
\* longest document the loop may build (guards the responses' lengths)
MaxTextLen == 2
\* largest max_chunk_size the setup may compute
MaxChunkSize == 2
\* most chunks the slicing loop may append (binds only when it cannot end)
MaxChunks == 6
\* longest text of a direct call of split_text_into_chunks
MaxSplitLen == 4
\* largest token count and largest token_target of a direct call of
\* compute_target_word_count_per_chunk
MaxAllocTokens == 4
MaxAllocTarget == 6

\* ------------------------------------------------------------- texts
Letters == {"a"}
Whitespace == {" ", "\n"}
Chars == Letters \cup Whitespace

TextsUpTo(S, n) == UNION {[1..k -> S] : k \in 0..n}

Min(a, b) == IF a < b THEN a ELSE b
Max(a, b) == IF a > b THEN a ELSE b

RECURSIVE Sum(_)
Sum(s) == IF s = <<>> THEN 0 ELSE Head(s) + Sum(Tail(s))

RECURSIVE Flatten(_)
Flatten(ss) == IF ss = <<>> THEN <<>> ELSE Head(ss) \o Flatten(Tail(ss))

\* mutant of Join: the separator is left out
JoinNoSeparator(sep, ss) == Flatten(ss)

\* str.join
RECURSIVE Join(_, _)
Join(sep, ss) ==
    IF ss = <<>> THEN <<>>
    ELSE IF Len(ss) = 1 THEN Head(ss)
    ELSE Head(ss) \o sep \o Join(sep, Tail(ss))

\* str.strip with no argument: leading and trailing whitespace removed
RECURSIVE LStrip(_)
LStrip(t) ==
    IF t # <<>> /\ Head(t) \in Whitespace THEN LStrip(Tail(t)) ELSE t

RECURSIVE RStrip(_)
RStrip(t) ==
    IF t # <<>> /\ t[Len(t)] \in Whitespace
    THEN RStrip(SubSeq(t, 1, Len(t) - 1)) ELSE t

Strip(t) == RStrip(LStrip(t))

\* s[start:end] of Python for integers start and end of either sign
PyIndex(i, n) == IF i < 0 THEN Max(i + n, 0) ELSE Min(i, n)

PySlice(s, start, end) ==
    LET lo == PyIndex(start, Len(s))
        hi == PyIndex(end, Len(s))
    IN  IF lo >= hi THEN <<>> ELSE SubSeq(s, lo + 1, hi)

\* ------------------------------------------------------------- tiktoken
\* The two schemes the tools can end up with.  Both cut a text greedily
\* from the left; a space followed by a letter is one token, o200k_base
\* also takes two letters as one token, every other character is a token.
Encodings == {"cl100k_base", "o200k_base"}

RECURSIVE encode(_, _)
encode(encoding, text) ==
    IF text = <<>> THEN <<>>
    ELSE IF Len(text) >= 2 /\ text[1] = " " /\ text[2] \in Letters
    THEN <<SubSeq(text, 1, 2)>> \o encode(encoding, SubSeq(text, 3, Len(text)))
    ELSE IF encoding = "o200k_base" /\ Len(text) >= 2
            /\ text[1] \in Letters /\ text[2] \in Letters
    THEN <<SubSeq(text, 1, 2)>> \o encode(encoding, SubSeq(text, 3, Len(text)))
    ELSE <<SubSeq(text, 1, 1)>> \o encode(encoding, Tail(text))

decode(tokens) == Flatten(tokens)

\* tiktoken.encoding_for_model: the models tiktoken knows, and KeyError
\* (here the value "KeyError") for every other name
TiktokenModels ==
    [x \in {"gpt-4o", "gpt-4o-mini"} |-> "o200k_base"] @@
    [x \in {"gpt-4", "gpt-4-turbo", "gpt-3.5-turbo"} |-> "cl100k_base"]

encoding_for_model(model_name) ==
    IF model_name \in DOMAIN TiktokenModels
    THEN TiktokenModels[model_name] ELSE "KeyError"

\* ------------------------------------------------------------- rationals
\* A float of the program is modelled by the exact rational [num, den],
\* den > 0, in lowest terms.
RECURSIVE GCD(_, _)
GCD(a, b) == IF b = 0 THEN a ELSE GCD(b, a % b)

Abs(x) == IF x < 0 THEN -x ELSE x

Rat(n, d) ==
    LET g == GCD(Abs(n), Abs(d))
        s == IF d < 0 THEN -1 ELSE 1
    IN  [num |-> s * (n \div g), den |-> s * (d \div g)]

RMul(x, y) == Rat(x.num * y.num, x.den * y.den)
RDiv(x, y) == Rat(x.num * y.den, x.den * y.num)
RGeq(x, y) == x.num * y.den >= y.num * x.den

\* math.floor
Floor(x) == x.num \div x.den
\* int(float): truncation toward zero
PyInt(x) == IF x.num >= 0 THEN x.num \div x.den ELSE -((-x.num) \div x.den)

\* ------------------------------------------------------------- get_prompts
Styles ==
    {"auto_detect", "bullet_points", "glossary_terms", "outline",
     "critical_analysis", "facts_database", "keywords_keyphrases"}

SystemMessage ==
    "You are a compression assistant. Your task is to compress text to a specified word count or summary format. Follow the specified compression style, using concise language while retaining essential details."

JsonDirective == " and format the output as JSON"

\* A prompt template is the sequence of its literal pieces and placeholders.
RawPrompts ==
    [s \in Styles |->
       CASE s = "auto_detect" ->
              <<"Review the following text and choose a mode of compression that best suits the type of content provided, aiming for around ",
                "{target_word_count}", " words", "{json_spec}",
                ". Here is the text to analysize and compress:\n\n", "{chunk_string}">>
         [] s = "bullet_points" ->
              <<"Summarize the following text into clear bullet points, with each point capturing an essential idea. Aim for approximately ",
                "{target_word_count}", " words", "{json_spec}", ":\n\n", "{chunk_string}">>
         [] s = "glossary_terms" ->
              <<"Extract and define key terms and concepts from the following text, presenting them as a glossary list. Aim for around ",
                "{target_word_count}", " words", "{json_spec}", ":\n\n", "{chunk_string}">>
         [] s = "outline" ->
              <<"Create a structured outline with headings and subheadings, capturing the primary structure and flow of the text. Aim for around ",
                "{target_word_count}", " words", "{json_spec}",
                ". Use hierarchical headings to emphasize key points and their relationships:\n\n",
                "{chunk_string}">>
         [] s = "critical_analysis" ->
              <<"Provide a brief analysis of the main points, discussing strengths, weaknesses, or important themes present in the text. Aim for around ",
                "{target_word_count}", " words", "{json_spec}", ":\n\n", "{chunk_string}">>
         [] s = "facts_database" ->
              <<"Extract factual statements from the following text, summarizing key details, statistics, and verifiable information. Aim for around ",
                "{target_word_count}", " words", "{json_spec}", ":\n\n", "{chunk_string}">>
         [] OTHER ->
              <<"List key terms and phrases that represent the main ideas of the following text. Limit the list to approximately ",
                "{target_word_count}", " words", "{json_spec}", ":\n\n", "{chunk_string}">>]

\* str.replace on a template: every piece equal to old becomes new, and an
\* empty replacement leaves no piece behind
Replace(template, old, new) ==
    LET m == [i \in 1..Len(template) |->
                IF template[i] = old THEN new ELSE template[i]]
        Kept(p) == p # ""
    IN  SelectSeq(m, Kept)

\* mutant of JsonSpec: the placeholder is always replaced by nothing
JsonSpecDropped(is_json) == ""

\* lines 190-195: what replaces the placeholder {json_spec}
JsonSpec(is_json) == IF is_json THEN JsonDirective ELSE ""

get_prompts(is_json) ==
    [system_message |-> SystemMessage,
     prompts |-> [s \in Styles |->
                    Replace(RawPrompts[s], "{json_spec}", JsonSpec(is_json))]]

Pieces(template) == {template[i] : i \in 1..Len(template)}

\* str.format(target_word_count=..., chunk_string=...): the template with the
\* two values bound to its placeholders
Format(template, twc, chunk) ==
    [template |-> template, target_word_count |-> twc, chunk_string |-> chunk]

\* calculate_prompt_tokens: the largest token count among the formatted
\* prompts; count[s] is len(encoding.encode(system_message + prompt s))
calculate_prompt_tokens(prompts_, count) ==
    LET lens == {count[s] : s \in DOMAIN prompts_} \cup {0}
    IN  CHOOSE m \in lens : \A x \in lens : x <= m

\* ------------------------------------------------------------- allocator
\* mutant of the allocator: no floor of one word
compute_target_word_count_no_floor(chunk_tokens_len, total_tokens_len, token_target, aggression_factor) ==
    LET chunk_proportion ==
            IF total_tokens_len > 0
            THEN Rat(chunk_tokens_len, total_tokens_len) ELSE Rat(0, 1)
        target_tokens_per_chunk ==
            IF aggression_factor.num # 0
            THEN RDiv(RMul(chunk_proportion, Rat(token_target, 1)),
                      aggression_factor)
            ELSE Rat(0, 1)
    IN  PyInt(RDiv(target_tokens_per_chunk, Rat(13, 10)))

\* mutant of the allocator: the aggression factor multiplies the share
compute_target_word_count_multiplied(chunk_tokens_len, total_tokens_len, token_target, aggression_factor) ==
    LET chunk_proportion ==
            IF total_tokens_len > 0
            THEN Rat(chunk_tokens_len, total_tokens_len) ELSE Rat(0, 1)
        target_tokens_per_chunk ==
            RMul(RMul(chunk_proportion, Rat(token_target, 1)),
                 aggression_factor)
    IN  Max(PyInt(RDiv(target_tokens_per_chunk, Rat(13, 10))), 1)

\* lines 202-212
compute_target_word_count_per_chunk(chunk_tokens_len, total_tokens_len, token_target, aggression_factor) ==
    LET chunk_proportion ==
            IF total_tokens_len > 0
            THEN Rat(chunk_tokens_len, total_tokens_len) ELSE Rat(0, 1)
        target_tokens_per_chunk ==
            IF aggression_factor.num # 0
            THEN RDiv(RMul(chunk_proportion, Rat(token_target, 1)),
                      aggression_factor)
            ELSE Rat(0, 1)
    IN  Max(PyInt(RDiv(target_tokens_per_chunk, Rat(13, 10))), 1)

RECURSIVE Pow(_, _)
Pow(b, e) == IF e = 0 THEN 1 ELSE b * Pow(b, e - 1)

\* aggression_factor after k passes: 1.2 * 1.1^k.  The state keeps k
\* (aggression_exp).  From k = 5 on the factor times 1.3 exceeds 2.5, the
\* allocator's quotient is below 2 for every token_target <= 5 and its
\* result is the same as at k = 5, so larger powers are never needed.
AggressionFactor(k) ==
    LET e == IF k < 5 THEN k ELSE 5
    IN  Rat(12 * Pow(11, e), 10 * Pow(10, e))

\* ------------------------------------------------------------- compress_chunk
\* What the completion service does with one request: the call raises
\* ("api_error"), the response cannot be read because it has no choice or no
\* content ("bad_response"), or the response carries a content.
ResponseContents == {<<>>, <<" ", "a", "\n">>, <<"a", "a">>}

Outcomes ==
    {[kind |-> k, content |-> <<>>] : k \in {"api_error", "bad_response"}}
    \cup {[kind |-> "ok", content |-> c] : c \in ResponseContents}

\* mutant of compress_chunk: a failed request gives the chunk back unchanged
compress_chunk_keeps_chunk(chunk, compressor_type, target_word_count_, prompts_, is_json, system_message, model_name, outcome) ==
    LET prompt == Format(prompts_[compressor_type], target_word_count_, chunk)
    IN  [request |-> [model |-> model_name, system |-> system_message,
                      user |-> prompt],
         compressed_chunk |->
             IF outcome.kind = "ok" THEN Strip(outcome.content) ELSE chunk,
         logged |-> outcome.kind # "ok"]

\* lines 217-245
compress_chunk(chunk, compressor_type, target_word_count_, prompts_, is_json, system_message, model_name, outcome) ==
    LET prompt == Format(prompts_[compressor_type], target_word_count_, chunk)
    IN  [request |-> [model |-> model_name, system |-> system_message,
                      user |-> prompt],
         compressed_chunk |->
             IF outcome.kind = "ok" THEN Strip(outcome.content) ELSE <<>>,
         logged |-> outcome.kind # "ok"]

\* ------------------------------------------------------------- state
VARIABLES
    pc,                 \* position in the program
    \* the environment and the command line (llm_text_compressor.main)
    env_api_key,        \* OPENAI_API_KEY is set and not empty
    file_exists,        \* the file args.large_text exists
    file_text,          \* its content
    args,               \* token_target, compressor_type, model_name, json, return_str
    \* what the process leaves behind
    exit_status,        \* -1 while it runs
    stdout,             \* the kinds of message printed so far
    stdout_text,        \* the compressed text printed under --return_str
    output_files,       \* compressed_output.txt and compressed_output.json
    \* locals of main
    large_text, model_max_tokens, prompts, encoding, max_chunk_size,
    total_tokens, compressed_text, current_tokens, iteration,
    aggression_exp,     \* aggression_factor = 1.2 * 1.1^aggression_exp
    total_chunk_tokens, compressed_chunks,
    idx,                \* chunks of this pass already compressed
    target_word_count,
    \* locals of split_text_into_chunks
    tokens, chunks, chunk_token_counts, start,
    \* the completion service as the program sees it
    requests,           \* the prompts sent in the current pass, in order
    last_outcome,       \* the service's answer to the last of them
    chunk_error,        \* compress_chunk printed its error message for it
    called,             \* a request has been sent
    \* the arguments of a direct call of the allocator (SpecAlloc)
    alloc_args,
    \* llm_codebase_compressor.compress_repository (SpecRepo); its locals
    \* encoding and current_tokens are the variables of those names above
    repo_args,          \* token_target, mode, model_name, output_format,
                        \* include_code_fragments
    repo_files,         \* what gather_python_files finds: relpath and code
    file_idx,           \* files the for loop is done with
    output_chunks,
    repo_result,        \* what the call returned or raised
    \* llm_code_explainer.main (SpecExplain)
    expl_args,          \* repo_url, engine
    repo_exists,        \* the directory args.repo_path exists
    disk_files,         \* the .py files under it: name and lines
    out_exists,         \* the directory args.output_base_path exists
    out_files,          \* the files under it: path and content
    cloned,             \* git.Repo.clone_from has been called
    python_files,       \* what glob found
    file_pos,           \* files the outer for loop is done with
    code_lines,         \* the lines of the file being explained
    line_pos            \* lines the inner for loop is done with

envVars == <<env_api_key, file_exists, file_text, args>>
outVars == <<exit_status, stdout, stdout_text, output_files>>
setupVars == <<large_text, model_max_tokens, prompts, encoding,
               max_chunk_size, total_tokens>>
loopVars == <<compressed_text, current_tokens, iteration, aggression_exp>>
passVars == <<total_chunk_tokens, compressed_chunks, idx, target_word_count>>
splitVars == <<tokens, chunks, chunk_token_counts, start>>
callVars == <<requests, last_outcome, chunk_error, called>>
repoVars == <<repo_args, repo_files, file_idx, output_chunks, repo_result>>
explVars == <<expl_args, repo_exists, disk_files, out_exists, out_files,
              cloned, python_files, file_pos, code_lines, line_pos>>

vars == <<pc, envVars, outVars, setupVars, loopVars, passVars, splitVars,
          callVars, alloc_args, repoVars, explVars>>

\* ------------------------------------------------------------- main
max_iterations == 100

MODEL_TOKEN_LIMITS ==
    [x \in {"gpt-4o", "gpt-4o-mini", "gpt-4-turbo", "o1-preview", "o1-mini"}
        |-> 128000] @@
    [x \in {"gpt-4"} |-> 8192] @@
    [x \in {"gpt-3.5-turbo"} |-> 16385] @@
    [x \in {"gpt-3.5-turbo-instruct"} |-> 4096]

\* MODEL_TOKEN_LIMITS.get(model_name, 4096) - 1000
ModelMaxTokens(model_name) ==
    (IF model_name \in DOMAIN MODEL_TOKEN_LIMITS
     THEN MODEL_TOKEN_LIMITS[model_name] ELSE 4096) - 1000

\* try: encoding_for_model(model_name) except KeyError: cl100k_base
MainEncoding(model_name) ==
    IF encoding_for_model(model_name) = "KeyError"
    THEN "cl100k_base" ELSE encoding_for_model(model_name)

OutputNames == {"compressed_output.txt", "compressed_output.json"}
NoFile == [exists |-> FALSE, content |-> <<>>]
NoOutcome == [kind |-> "none", content |-> <<>>]
NoRepoArgs ==
    [token_target |-> 0, mode |-> "auto_detect", model_name |-> "gpt-4o-mini",
     output_format |-> "markdown", include_code_fragments |-> FALSE]
NoResult == [kind |-> "none", value |-> <<>>]

\* compress_repository is not running
RepoIdle ==
    /\ repo_args = NoRepoArgs /\ repo_files = <<>> /\ file_idx = 0
    /\ output_chunks = <<>> /\ repo_result = NoResult

NoExplArgs == [repo_url |-> "", engine |-> "text-davinci-002"]

\* llm_code_explainer.main is not running
ExplIdle ==
    /\ expl_args = NoExplArgs /\ repo_exists = FALSE /\ disk_files = <<>>
    /\ out_exists = FALSE /\ out_files = <<>> /\ cloned = FALSE
    /\ python_files = <<>> /\ file_pos = 0 /\ code_lines = <<>>
    /\ line_pos = 0

NoAllocArgs == [chunk_tokens_len |-> 0, total_tokens_len |-> 0,
                token_target |-> 0, aggression_factor |-> Rat(1, 1)]

\* values of the command line: every token_target of Targets with the
\* options of DefaultArgs, and the other options at its token_target
Targets == -1..2
InputTexts == {<<>>, <<"a">>, <<"a", " ", "a">>, <<"a", "\n", "a">>}

DefaultArgs ==
    [token_target |-> 1, compressor_type |-> "auto_detect",
     model_name |-> "gpt-4o-mini", json |-> FALSE, return_str |-> FALSE]

Invocations ==
    {[DefaultArgs EXCEPT !.token_target = t] : t \in Targets}
    \cup {[DefaultArgs EXCEPT !.compressor_type = "outline", !.json = TRUE],
          [DefaultArgs EXCEPT !.return_str = TRUE, !.model_name = "gpt-4"],
          [DefaultArgs EXCEPT !.model_name = "my-model"]}

\* the locals before main assigns them
Unassigned ==
    /\ large_text = <<>> /\ model_max_tokens = 0
    /\ prompts = [s \in Styles |-> <<>>]
    /\ encoding = "cl100k_base" /\ max_chunk_size = 0 /\ total_tokens = 0
    /\ compressed_text = <<>> /\ current_tokens = 0 /\ iteration = 0
    /\ aggression_exp = 0
    /\ total_chunk_tokens = 0 /\ compressed_chunks = <<>> /\ idx = 0
    /\ target_word_count = 0
    /\ tokens = <<>> /\ chunks = <<>> /\ chunk_token_counts = <<>>
    /\ start = 0
    /\ requests = <<>> /\ last_outcome = NoOutcome /\ chunk_error = FALSE
    /\ called = FALSE
    /\ exit_status = -1 /\ stdout = {} /\ stdout_text = <<>>
    /\ output_files = [n \in OutputNames |-> NoFile]

\* parse_args has returned (lines 18-42)
Init ==
    /\ pc = "check_key"
    /\ env_api_key \in BOOLEAN
    /\ file_exists \in BOOLEAN
    /\ file_text \in (IF file_exists THEN InputTexts ELSE {<<>>})
    /\ args \in Invocations
    /\ alloc_args = NoAllocArgs
    /\ RepoIdle
    /\ ExplIdle
    /\ Unassigned

\* mutant of ApiKeyMissing: the credential is never looked at
ApiKeyMissingIgnored == FALSE

\* line 46: not os.getenv('OPENAI_API_KEY')
ApiKeyMissing == ~env_api_key

\* line 55: open raised FileNotFoundError
FileNotFound == ~file_exists

\* lines 46-48
CheckApiKey ==
    /\ pc = "check_key"
    /\ IF ApiKeyMissing
       THEN /\ stdout' = stdout \cup {"set_api_key"}
            /\ exit_status' = 1
            /\ pc' = "exit"
       ELSE /\ pc' = "read_file"
            /\ UNCHANGED <<stdout, exit_status>>
    /\ UNCHANGED <<envVars, stdout_text, output_files, setupVars, loopVars,
                   passVars, splitVars, callVars, alloc_args, repoVars,
                   explVars>>

\* lines 52-57
ReadFile ==
    /\ pc = "read_file"
    /\ IF FileNotFound
       THEN /\ stdout' = stdout \cup {"file_does_not_exist"}
            /\ exit_status' = 1
            /\ pc' = "exit"
            /\ UNCHANGED large_text
       ELSE /\ large_text' = file_text
            /\ pc' = "setup"
            /\ UNCHANGED <<stdout, exit_status>>
    /\ UNCHANGED <<envVars, stdout_text, output_files, model_max_tokens,
                   prompts, encoding, max_chunk_size, total_tokens, loopVars,
                   passVars, splitVars, callVars, alloc_args, repoVars,
                   explVars>>

\* lines 61-104.  The token counts of the formatted prompts come from the
\* encoding of their English text; they are drawn so that max_chunk_size is
\* in 1..MaxChunkSize and documents of a few tokens split into several chunks.
Setup ==
    /\ pc = "setup"
    /\ LET limit == ModelMaxTokens(args.model_name)
           got == get_prompts(args.json)
           enc == MainEncoding(args.model_name)
       IN  \E count \in [Styles -> {limit - m : m \in 1..MaxChunkSize}] :
             LET tokens_reserved_for_prompt ==
                     calculate_prompt_tokens(got.prompts, count)
             IN  /\ model_max_tokens' = limit
                 /\ prompts' = got.prompts
                 /\ encoding' = enc
                 /\ max_chunk_size' = limit - tokens_reserved_for_prompt
                 /\ total_tokens' = Len(encode(enc, large_text))
                 /\ compressed_text' = large_text
                 /\ current_tokens' = Len(encode(enc, large_text))
                 /\ iteration' = 0
                 /\ aggression_exp' = 0
    /\ pc' = "while"
    /\ UNCHANGED <<envVars, outVars, large_text, passVars, splitVars,
                   callVars, alloc_args, repoVars, explVars>>

\* mutant of LoopContinues: the cap is tested with <=, one pass too many
LoopContinuesOneMore(current_tokens_, token_target, iteration_) ==
    current_tokens_ > token_target /\ iteration_ <= max_iterations

\* mutant of LoopContinues: the target is tested with >=, so a document
\* exactly at the target is compressed again
LoopContinuesAtTarget(current_tokens_, token_target, iteration_) ==
    current_tokens_ >= token_target /\ iteration_ < max_iterations

\* mutant of LoopContinues: the target is not tested
LoopContinuesIgnoringTarget(current_tokens_, token_target, iteration_) ==
    iteration_ < max_iterations

\* the condition of the while statement, line 106
LoopContinues(current_tokens_, token_target, iteration_) ==
    current_tokens_ > token_target /\ iteration_ < max_iterations

\* line 106, and line 107 when the loop goes on
WhileTest ==
    /\ pc = "while"
    /\ IF LoopContinues(current_tokens, args.token_target, iteration)
       THEN /\ stdout' = stdout \cup {"iteration"}
            /\ pc' = "split_enter"
       ELSE /\ pc' = "report"
            /\ UNCHANGED stdout
    /\ UNCHANGED <<envVars, exit_status, stdout_text, output_files, setupVars,
                   loopVars, passVars, splitVars, callVars, alloc_args, repoVars,
                   explVars>>

\* split_text_into_chunks, lines 155-158
SplitEnter ==
    /\ pc = "split_enter"
    /\ tokens' = encode(encoding, compressed_text)
    /\ chunks' = <<>>
    /\ chunk_token_counts' = <<>>
    /\ start' = 0
    /\ pc' = "split_loop"
    /\ UNCHANGED <<envVars, outVars, setupVars, loopVars, passVars, callVars,
                   alloc_args, repoVars, explVars>>

\* mutant of SplitEnd: the window is one token too wide
SplitEndTooWide(start_, max_chunk_size_, tokens_) ==
    Min(start_ + max_chunk_size_ + 1, Len(tokens_))

\* mutant of SplitEnd: the window is one token too narrow
SplitEndTooNarrow(start_, max_chunk_size_, tokens_) ==
    Min(start_ + max_chunk_size_ - 1, Len(tokens_))

\* the value start takes in one pass of the slicing loop (lines 160, 165)
SplitEnd(start_, max_chunk_size_, tokens_) ==
    Min(start_ + max_chunk_size_, Len(tokens_))

\* split_text_into_chunks, lines 159-165: one pass of the slicing loop
SplitStep ==
    /\ pc = "split_loop"
    /\ start < Len(tokens)
    /\ Len(chunks) < MaxChunks
    /\ LET end == SplitEnd(start, max_chunk_size, tokens)
           chunk_tokens == PySlice(tokens, start, end)
       IN  /\ chunks' = Append(chunks, decode(chunk_tokens))
           /\ chunk_token_counts' =
                  Append(chunk_token_counts, Len(chunk_tokens))
           /\ start' = end
    /\ UNCHANGED <<pc, tokens, envVars, outVars, setupVars, loopVars,
                   passVars, callVars, alloc_args, repoVars, explVars>>

\* split_text_into_chunks returns (line 166), and its frame with tokens and
\* start is gone; main, lines 109-110
SplitReturn ==
    /\ pc = "split_loop"
    /\ ~(start < Len(tokens))
    /\ tokens' = <<>>
    /\ start' = 0
    /\ total_chunk_tokens' = Sum(chunk_token_counts)
    /\ compressed_chunks' = <<>>
    /\ idx' = 0
    /\ requests' = <<>>
    /\ pc' = "for"
    /\ UNCHANGED <<envVars, outVars, setupVars, loopVars, target_word_count,
                   chunks, chunk_token_counts, last_outcome, chunk_error,
                   called, alloc_args, repoVars, explVars>>

\* lines 111-115: one chunk of the pass.  A response is taken only if the
\* document of this pass can still stay within MaxTextLen.
CompressChunk ==
    /\ pc = "for"
    /\ idx < Len(chunks)
    /\ \E outcome \in Outcomes :
         LET twc == compute_target_word_count_per_chunk(
                        chunk_token_counts[idx + 1], total_chunk_tokens,
                        args.token_target, AggressionFactor(aggression_exp))
             got == compress_chunk(chunks[idx + 1], args.compressor_type, twc,
                                   prompts, args.json, SystemMessage,
                                   args.model_name, outcome)
             next == Append(compressed_chunks, got.compressed_chunk)
         IN  /\ Len(Join(<<"\n">>, next)) + (Len(chunks) - idx - 1)
                    <= MaxTextLen
             /\ target_word_count' = twc
             /\ compressed_chunks' = next
             /\ requests' = Append(requests, got.request.user)
             /\ last_outcome' = outcome
             /\ chunk_error' = got.logged
    /\ stdout' = stdout \cup {"compressing_chunk"}
    /\ called' = TRUE
    /\ idx' = idx + 1
    /\ UNCHANGED <<pc, envVars, exit_status, stdout_text, output_files,
                   setupVars, loopVars, total_chunk_tokens, splitVars,
                   alloc_args, repoVars, explVars>>

\* lines 116-120.  The locals of the pass are not read again before line
\* 108 and the for statement assign them anew: the model forgets them here.
EndPass ==
    /\ pc = "for"
    /\ idx = Len(chunks)
    /\ LET joined == Join(<<"\n">>, compressed_chunks)
           count == Len(encode(encoding, joined))
       IN  /\ compressed_text' = joined
           /\ current_tokens' = count
    /\ aggression_exp' = aggression_exp + 1
    /\ iteration' = iteration + 1
    /\ chunks' = <<>>
    /\ chunk_token_counts' = <<>>
    /\ total_chunk_tokens' = 0
    /\ compressed_chunks' = <<>>
    /\ idx' = 0
    /\ target_word_count' = 0
    /\ requests' = <<>>
    /\ last_outcome' = NoOutcome
    /\ chunk_error' = FALSE
    /\ pc' = "while"
    /\ UNCHANGED <<envVars, outVars, setupVars, tokens, start, called,
                   alloc_args, repoVars, explVars>>

\* lines 122-125: the message printed when the loop has stopped
ReportMessage(iteration_, current_tokens_, token_target) ==
    IF iteration_ >= max_iterations /\ current_tokens_ > token_target
    THEN "maximum_iterations_reached"
    ELSE "compression_successful"

\* lines 122-125
Report ==
    /\ pc = "report"
    /\ stdout' = stdout \cup
          {ReportMessage(iteration, current_tokens, args.token_target)}
    /\ pc' = "output"
    /\ UNCHANGED <<envVars, exit_status, stdout_text, output_files, setupVars,
                   loopVars, passVars, splitVars, callVars, alloc_args, repoVars,
                   explVars>>

\* line 132
OutputFile(is_json) ==
    IF is_json THEN "compressed_output.json" ELSE "compressed_output.txt"

\* lines 129-135
Output ==
    /\ pc = "output"
    /\ IF args.return_str
       THEN /\ stdout' = stdout \cup {"compressed_text"}
            /\ stdout_text' = compressed_text
            /\ UNCHANGED output_files
       ELSE LET output_file == OutputFile(args.json)
            IN  /\ output_files' =
                       [output_files EXCEPT ![output_file] =
                            [exists |-> TRUE, content |-> compressed_text]]
                /\ stdout' = stdout \cup {"output_saved"}
                /\ UNCHANGED stdout_text
    /\ exit_status' = 0
    /\ pc' = "done"
    /\ UNCHANGED <<envVars, setupVars, loopVars, passVars, splitVars,
                   callVars, alloc_args, repoVars, explVars>>

Next ==
    \/ CheckApiKey
    \/ ReadFile
    \/ Setup
    \/ WhileTest
    \/ SplitEnter
    \/ SplitStep
    \/ SplitReturn
    \/ CompressChunk
    \/ EndPass
    \/ Report
    \/ Output

Spec == Init /\ [][Next]_vars

\* ------------------------------------------------------------- direct calls
\* the state of a process that runs one function and not main
NotInMain ==
    /\ file_exists = TRUE /\ file_text = <<>>
    /\ args = DefaultArgs
    /\ exit_status = -1 /\ stdout = {} /\ stdout_text = <<>>
    /\ output_files = [n \in OutputNames |-> NoFile]
    /\ large_text = <<>> /\ model_max_tokens = 0
    /\ prompts = [s \in Styles |-> <<>>]
    /\ total_tokens = 0 /\ iteration = 0 /\ aggression_exp = 0
    /\ total_chunk_tokens = 0 /\ compressed_chunks = <<>> /\ idx = 0
    /\ target_word_count = 0
    /\ tokens = <<>> /\ chunks = <<>> /\ chunk_token_counts = <<>>
    /\ start = 0
    /\ requests = <<>> /\ last_outcome = NoOutcome /\ chunk_error = FALSE
    /\ called = FALSE

\* split_text_into_chunks(text, max_chunk_size, encoding) called with any
\* text and any size; text is held by compressed_text, as in main
InitSplit ==
    /\ pc = "split_enter"
    /\ compressed_text \in TextsUpTo(Chars, MaxSplitLen)
    /\ encoding \in Encodings
    /\ max_chunk_size \in (0 - 1)..(MaxChunkSize + 1)
    /\ current_tokens = Len(encode(encoding, compressed_text))
    /\ alloc_args = NoAllocArgs
    /\ env_api_key = TRUE
    /\ RepoIdle
    /\ ExplIdle
    /\ NotInMain

NextSplit ==
    \/ SplitEnter
    \/ SplitStep
    \/ SplitReturn

SpecSplit == InitSplit /\ [][NextSplit]_vars

\* compute_target_word_count_per_chunk called with token counts, any
\* token_target and an aggression factor of either sign
AllocFactors ==
    {Rat(0 - 1, 1), Rat(0, 1), Rat(1, 2), Rat(1, 1), Rat(6, 5), Rat(33, 25),
     Rat(2, 1)}

InitAlloc ==
    /\ pc = "alloc"
    /\ alloc_args \in [chunk_tokens_len : 0..MaxAllocTokens,
                       total_tokens_len : 0..MaxAllocTokens,
                       token_target : (0 - 2)..MaxAllocTarget,
                       aggression_factor : AllocFactors]
    /\ compressed_text = <<>> /\ encoding = "cl100k_base"
    /\ max_chunk_size = 0 /\ current_tokens = 0
    /\ env_api_key = TRUE
    /\ RepoIdle
    /\ ExplIdle
    /\ NotInMain

ComputeTarget ==
    /\ pc = "alloc"
    /\ target_word_count' =
           compute_target_word_count_per_chunk(
               alloc_args.chunk_tokens_len, alloc_args.total_tokens_len,
               alloc_args.token_target, alloc_args.aggression_factor)
    /\ pc' = "alloc_done"
    /\ UNCHANGED <<envVars, outVars, setupVars, loopVars, total_chunk_tokens,
                   compressed_chunks, idx, splitVars, callVars, alloc_args, repoVars,
                   explVars>>

NextAlloc == ComputeTarget

SpecAlloc == InitAlloc /\ [][NextAlloc]_vars

\* ------------------------------------------------------------- compress_repository
\* most files gather_python_files may find
MaxFiles == 2

\* str.splitlines, for texts whose only line break is "\n"
RECURSIVE SplitLines(_)
SplitLines(t) ==
    IF t = <<>> THEN <<>>
    ELSE LET breaks == {i \in 1..Len(t) : t[i] = "\n"}
         IN  IF breaks = {} THEN <<t>>
             ELSE LET i == CHOOSE j \in breaks : \A k \in breaks : j <= k
                  IN  <<SubSeq(t, 1, i - 1)>>
                         \o SplitLines(SubSeq(t, i + 1, Len(t)))

\* lines of code kept in a code fragment, line 147
FragmentLines == 10

\* lines 146-148.  A literal of the program's text is one element of the
\* text.  The second literal of line 148 is no f-string: the text ends with
\* the characters {summary}, whatever summary is.  The backquote of the
\* source is written ' here.
WithCodeFragment(code, summary) ==
    LET lines == SplitLines(code)
        snippet == Join(<<"\n">>, SubSeq(lines, 1, Min(FragmentLines, Len(lines))))
    IN  <<"'''python", "\n">> \o snippet \o <<"\n", "''">>
            \o <<"\n", "{summary}">>

\* line 156
FileChunk(relpath, summary) ==
    <<"### ">> \o relpath \o <<"\n", "\n">> \o summary \o <<"\n">>

\* build_simple_call_graph, lines 45-63: the functions of the file and what
\* they call; a code with no def statement has none
build_simple_call_graph(code) == <<>>

prompt_styles ==
    [m \in {"auto_detect"} |-> "Summarise the following code:"] @@
    [m \in {"architecture_outline"} |->
        "Describe the architecture and important classes:"] @@
    [m \in {"function_summaries"} |->
        "Give a one line summary for each function:"] @@
    [m \in {"algorithm_sketches"} |->
        "Write short pseudocode for complex parts:"] @@
    [m \in {"dependency_map"} |-> "Explain the imports and side effects:"] @@
    [m \in {"boilerplate_collapse"} |->
        "Only keep unique logic, collapsing boilerplate:"]

RepoSystemMessage ==
    "You are a code compression assistant. Given a code file and a call graph, produce a short summary following the requested style."

\* summarise_file, lines 71-111, once the client exists
summarise_file(code, call_graph, mode, model, outcome) ==
    [request |->
         [model |-> model, system |-> RepoSystemMessage,
          user |-> [style |-> IF mode \in DOMAIN prompt_styles
                              THEN prompt_styles[mode]
                              ELSE prompt_styles["auto_detect"],
                    call_graph_text |-> Join(<<"\n">>, call_graph),
                    code |-> code]],
     summary |-> IF outcome.kind = "ok" THEN Strip(outcome.content) ELSE <<>>,
     logged |-> outcome.kind # "ok"]

\* json.dumps(s) of a string: line breaks escaped, in quotes
RECURSIVE JsonEscape(_)
JsonEscape(t) ==
    IF t = <<>> THEN <<>>
    ELSE (IF Head(t) = "\n" THEN <<"\\", "n">> ELSE <<Head(t)>>)
            \o JsonEscape(Tail(t))

\* json.dumps({"files": output_chunks}, indent=2), line 162
JsonDumpsFiles(output_chunks_) ==
    IF output_chunks_ = <<>> THEN <<"{", "\n", " ", " ", "\"files\": []", "\n", "}">>
    ELSE <<"{", "\n", " ", " ", "\"files\": [", "\n">>
            \o Join(<<",", "\n">>,
                    [i \in 1..Len(output_chunks_) |->
                        <<" ", " ", " ", " ", "\"">>
                            \o JsonEscape(output_chunks_[i]) \o <<"\"">>])
            \o <<"\n", " ", " ", "]", "\n", "}">>

RepoTargets == {0, 1, 2, 4, 12}
RepoCodes == {<<"a">>, <<"a", "\n", "a">>}
RepoFiles == {[relpath |-> <<"a">>, code |-> c] : c \in RepoCodes}

\* compress_repository is called (by main, line 212, or by a test)
InitRepo ==
    /\ pc = "repo_enter"
    /\ env_api_key \in BOOLEAN
    /\ repo_args \in [token_target : RepoTargets, mode : {"auto_detect"},
                      model_name : {"gpt-4o-mini", "gpt-4", "my-model"},
                      output_format : {"markdown", "json"},
                      include_code_fragments : BOOLEAN]
    /\ repo_files \in UNION {[1..n -> RepoFiles] : n \in 0..MaxFiles}
    /\ file_idx = 0 /\ output_chunks = <<>> /\ repo_result = NoResult
    /\ alloc_args = NoAllocArgs
    /\ compressed_text = <<>> /\ encoding = "cl100k_base"
    /\ max_chunk_size = 0 /\ current_tokens = 0
    /\ ExplIdle
    /\ NotInMain

\* line 127: no handler around the lookup
RepoEncoding(model_name) == encoding_for_model(model_name)

\* lines 127-129
RepoEnter ==
    /\ pc = "repo_enter"
    /\ IF RepoEncoding(repo_args.model_name) = "KeyError"
       THEN /\ repo_result' = [kind |-> "raised", value |-> <<"KeyError">>]
            /\ pc' = "repo_done"
            /\ UNCHANGED <<encoding, current_tokens, output_chunks>>
       ELSE /\ encoding' = RepoEncoding(repo_args.model_name)
            /\ output_chunks' = <<>>
            /\ current_tokens' = 0
            /\ pc' = "repo_gather"
            /\ UNCHANGED repo_result
    /\ UNCHANGED <<envVars, outVars, large_text, model_max_tokens, prompts,
                   max_chunk_size, total_tokens, compressed_text, iteration,
                   aggression_exp, passVars, splitVars, callVars, alloc_args,
                   repo_args, repo_files, file_idx, explVars>>

\* lines 131-137
RepoGather ==
    /\ pc = "repo_gather"
    /\ IF repo_files = <<>>
       THEN /\ stdout' = stdout \cup {"no_python_files"}
            /\ repo_result' = [kind |-> "returned", value |-> <<>>]
            /\ pc' = "repo_done"
       ELSE /\ pc' = "repo_for"
            /\ UNCHANGED <<stdout, repo_result>>
    /\ UNCHANGED <<envVars, exit_status, stdout_text, output_files, setupVars,
                   loopVars, passVars, splitVars, callVars, alloc_args,
                   repo_args, repo_files, file_idx, output_chunks, explVars>>

\* lines 139-157, one pass of the for loop.  OpenAI() of line 73 is outside
\* the try statement and raises when the credential is unset.
RepoFile ==
    /\ pc = "repo_for"
    /\ file_idx < Len(repo_files)
    /\ LET file == repo_files[file_idx + 1]
       IN  IF ~env_api_key
           THEN /\ repo_result' = [kind |-> "raised", value |-> <<"OpenAIError">>]
                /\ pc' = "repo_done"
                /\ UNCHANGED <<stdout, current_tokens, output_chunks, file_idx,
                               requests>>
           ELSE \E outcome \in Outcomes :
                  LET r == summarise_file(file.code,
                                          build_simple_call_graph(file.code),
                                          repo_args.mode, repo_args.model_name,
                                          outcome)
                      summary == IF repo_args.include_code_fragments
                                 THEN WithCodeFragment(file.code, r.summary)
                                 ELSE r.summary
                      chunk_tokens == Len(encode(encoding, summary))
                      printed == IF r.logged THEN {"openai_error"} ELSE {}
                  IN  /\ requests' = Append(requests, r.request)
                      /\ UNCHANGED repo_result
                      /\ IF current_tokens + chunk_tokens > repo_args.token_target
                         THEN /\ stdout' = stdout \cup printed
                                              \cup {"token_target_reached"}
                              /\ pc' = "repo_return"
                              /\ UNCHANGED <<current_tokens, output_chunks,
                                             file_idx>>
                         ELSE /\ stdout' = stdout \cup printed
                              /\ current_tokens' = current_tokens + chunk_tokens
                              /\ output_chunks' =
                                     Append(output_chunks,
                                            FileChunk(file.relpath, summary))
                              /\ file_idx' = file_idx + 1
                              /\ pc' = IF file_idx + 1 = Len(repo_files)
                                       THEN "repo_return" ELSE "repo_for"
    /\ UNCHANGED <<envVars, exit_status, stdout_text, output_files, setupVars,
                   compressed_text, iteration, aggression_exp, passVars,
                   splitVars, last_outcome, chunk_error, called, alloc_args,
                   repo_args, repo_files, explVars>>

\* lines 159-165
RepoReturn ==
    /\ pc = "repo_return"
    /\ repo_result' =
           [kind |-> "returned",
            value |-> IF repo_args.output_format = "json"
                      THEN JsonDumpsFiles(output_chunks)
                      ELSE Join(<<"\n">>, output_chunks)]
    /\ pc' = "repo_done"
    /\ UNCHANGED <<envVars, outVars, setupVars, loopVars, passVars, splitVars,
                   callVars, alloc_args, repo_args, repo_files, file_idx,
                   output_chunks, explVars>>

NextRepo ==
    \/ RepoEnter
    \/ RepoGather
    \/ RepoFile
    \/ RepoReturn

SpecRepo == InitRepo /\ [][NextRepo]_vars

\* ------------------------------------------------------------- llm_code_explainer
\* most .py files of a repository, and most lines of one
MaxExplFiles == 2

\* str.rstrip(chars): trailing characters of the set removed
RECURSIVE RStripChars(_, _)
RStripChars(t, chars) ==
    IF t # <<>> /\ t[Len(t)] \in chars
    THEN RStripChars(SubSeq(t, 1, Len(t) - 1), chars) ELSE t

\* str.split(sep) for a separator of one character
RECURSIVE SplitOn(_, _)
SplitOn(t, sep) ==
    LET at == {i \in 1..Len(t) : t[i] = sep}
    IN  IF at = {} THEN <<t>>
        ELSE LET i == CHOOSE j \in at : \A k \in at : j <= k
             IN  <<SubSeq(t, 1, i - 1)>> \o SplitOn(SubSeq(t, i + 1, Len(t)), sep)

\* BeautifulSoup(stripped, "html.parser").get_text(), line 111-112: the
\* markup is dropped.  A tag is one element of the text.
Tags == {"<a>"}
GetText(t) == SelectSeq(t, LAMBDA c : c \notin Tags)

\* lines 98-101, for a file directly under repo_path: the name under
\* output_base_path
OutputName(name) == RStripChars(name, {".", "p", "y"}) \o <<"_explained.py">>

ExplOutcomes ==
    {[kind |-> "api_error", content |-> <<>>]}
    \cup {[kind |-> "ok", content |-> c] :
            c \in {<<" ", "a", "\n">>, <<"a", "\n", "a">>}}

\* get_code_explanation, lines 29-43, once the client exists
get_code_explanation(code, engine, outcome) ==
    [request |-> [model |-> engine,
                  prompt |-> <<"Explain the following Python code:", "\n", "\n">>
                                 \o code \o <<"\n">>],
     explanation |-> IF outcome.kind = "ok" THEN Strip(outcome.content) ELSE <<>>,
     logged |-> outcome.kind # "ok"]

\* lines 113-116: what is written before a line that is not blank
Explained(explanation, line_number, text_line) ==
    Flatten([i \in 1..Len(SplitOn(explanation, "\n")) |->
                <<"# Explanation: ">> \o SplitOn(explanation, "\n")[i] \o <<"\n">>])
        \o <<"# Line ", ToString(line_number), ": ">> \o text_line \o <<"\n">>

\* open(path, "a") and write: the text is appended to the file of that path
AppendTo(files, path, text) ==
    IF \E i \in 1..Len(files) : files[i].path = path
    THEN [i \in 1..Len(files) |->
            IF files[i].path = path
            THEN [files[i] EXCEPT !.content = @ \o text] ELSE files[i]]
    ELSE Append(files, [path |-> path, content |-> text])

ExplFileSet ==
    {[name |-> <<"a", ".", "p", "y">>, lines |-> <<<<"a", "\n">>, <<"\n">>>>],
     [name |-> <<"a", "p", ".", "p", "y">>, lines |-> <<<<" ", "<a>", "a">>>>]}
Repositories == UNION {[1..n -> ExplFileSet] : n \in 0..MaxExplFiles}
OldOutputs ==
    {<<>>, <<[path |-> <<"a", "_explained.py">>, content |-> <<"a", "\n">>]>>}

\* parse_args has returned (lines 50-72)
InitExplain ==
    /\ pc = "expl_check"
    /\ env_api_key \in BOOLEAN
    /\ expl_args \in [repo_url : {"", "https://example.com/repo.git"},
                      engine : {"text-davinci-002"}]
    /\ repo_exists \in BOOLEAN
    /\ disk_files \in (IF repo_exists THEN Repositories ELSE {<<>>})
    /\ out_exists \in BOOLEAN
    /\ out_files \in (IF out_exists THEN OldOutputs ELSE {<<>>})
    /\ cloned = FALSE /\ python_files = <<>> /\ file_pos = 0
    /\ code_lines = <<>> /\ line_pos = 0
    /\ alloc_args = NoAllocArgs
    /\ compressed_text = <<>> /\ encoding = "cl100k_base"
    /\ max_chunk_size = 0 /\ current_tokens = 0
    /\ repo_args = NoRepoArgs /\ repo_files = <<>> /\ file_idx = 0
    /\ output_chunks = <<>> /\ repo_result = NoResult
    /\ NotInMain

\* mutant of RepoUrlMissing: the option is taken as given
RepoUrlMissingIgnored == FALSE

\* line 76: not args.repo_url
RepoUrlMissing == expl_args.repo_url = ""

\* lines 75-80.  clone_from either fills the new directory or raises.
ExplCheckRepo ==
    /\ pc = "expl_check"
    /\ IF repo_exists
       THEN /\ pc' = "expl_clean"
            /\ UNCHANGED <<stdout, exit_status, repo_exists, disk_files, cloned>>
       ELSE IF RepoUrlMissing
       THEN /\ stdout' = stdout \cup {"repo_path_does_not_exist"}
            /\ exit_status' = 1
            /\ pc' = "exit"
            /\ UNCHANGED <<repo_exists, disk_files, cloned>>
       ELSE /\ repo_exists' = TRUE
            /\ cloned' = TRUE
            /\ \/ /\ disk_files' \in Repositories
                  /\ pc' = "expl_clean"
                  /\ UNCHANGED <<stdout, exit_status>>
               \/ /\ stdout' = stdout \cup {"GitCommandError"}
                  /\ exit_status' = 1
                  /\ pc' = "exit"
                  /\ UNCHANGED disk_files
    /\ UNCHANGED <<env_api_key, file_exists, file_text, args, stdout_text,
                   output_files, setupVars, loopVars, passVars, splitVars,
                   callVars, alloc_args, repoVars, expl_args, out_exists,
                   out_files, python_files, file_pos, code_lines, line_pos>>

\* lines 83-86
ExplCleanOutput ==
    /\ pc = "expl_clean"
    /\ IF out_exists
       THEN out_exists' = FALSE /\ out_files' = <<>>
       ELSE UNCHANGED <<out_exists, out_files>>
    /\ pc' = "expl_glob"
    /\ UNCHANGED <<envVars, outVars, setupVars, loopVars, passVars, splitVars,
                   callVars, alloc_args, repoVars, expl_args, repo_exists,
                   disk_files, cloned, python_files, file_pos, code_lines,
                   line_pos>>

\* line 89
ExplGlob ==
    /\ pc = "expl_glob"
    /\ python_files' = disk_files
    /\ file_pos' = 0
    /\ pc' = "expl_for"
    /\ UNCHANGED <<envVars, outVars, setupVars, loopVars, passVars, splitVars,
                   callVars, alloc_args, repoVars, expl_args, repo_exists,
                   disk_files, out_exists, out_files, cloned, code_lines,
                   line_pos>>

\* lines 92-107: the next file is read and its output file opened for
\* appending; after the last file main returns
ExplOpenFile ==
    /\ pc = "expl_for"
    /\ IF file_pos < Len(python_files)
       THEN /\ code_lines' = python_files[file_pos + 1].lines
            /\ out_exists' = TRUE
            /\ out_files' =
                   AppendTo(out_files,
                            OutputName(python_files[file_pos + 1].name), <<>>)
            /\ line_pos' = 0
            /\ stdout' = stdout \cup {"processing_file"}
            /\ pc' = "expl_lines"
            /\ UNCHANGED exit_status
       ELSE /\ exit_status' = 0
            /\ pc' = "done"
            /\ UNCHANGED <<code_lines, out_exists, out_files, line_pos, stdout>>
    /\ UNCHANGED <<envVars, stdout_text, output_files, setupVars, loopVars,
                   passVars, splitVars, callVars, alloc_args, repoVars,
                   expl_args, repo_exists, disk_files, cloned, python_files,
                   file_pos>>

\* lines 108-117, one line of the file.  OpenAI() of line 31 is outside the
\* try statement and raises when the credential is unset.
ExplLine ==
    /\ pc = "expl_lines"
    /\ line_pos < Len(code_lines)
    /\ LET line == code_lines[line_pos + 1]
           stripped == Strip(line)
           text_line == GetText(stripped)
           path == OutputName(python_files[file_pos + 1].name)
       IN  IF stripped = <<>>
           THEN /\ out_files' = AppendTo(out_files, path, line)
                /\ line_pos' = line_pos + 1
                /\ UNCHANGED <<pc, stdout, exit_status, requests, called>>
           ELSE IF ~env_api_key
           THEN /\ stdout' = stdout \cup {"OpenAIError"}
                /\ exit_status' = 1
                /\ pc' = "exit"
                /\ UNCHANGED <<out_files, line_pos, requests, called>>
           ELSE \E outcome \in ExplOutcomes :
                  LET got == get_code_explanation(text_line, expl_args.engine,
                                                  outcome)
                  IN  /\ requests' = Append(requests, got.request)
                      /\ called' = TRUE
                      /\ stdout' = IF got.logged
                                   THEN stdout \cup {"explanation_error"}
                                   ELSE stdout
                      /\ out_files' =
                             AppendTo(out_files, path,
                                      Explained(got.explanation, line_pos + 1,
                                                text_line) \o line)
                      /\ line_pos' = line_pos + 1
                      /\ UNCHANGED <<pc, exit_status>>
    /\ UNCHANGED <<envVars, stdout_text, output_files, setupVars, loopVars,
                   passVars, splitVars, last_outcome, chunk_error, alloc_args,
                   repoVars, expl_args, repo_exists, disk_files, out_exists,
                   cloned, python_files, file_pos, code_lines>>

\* lines 118-121
ExplCloseFile ==
    /\ pc = "expl_lines"
    /\ line_pos = Len(code_lines)
    /\ out_files' = AppendTo(out_files,
                             OutputName(python_files[file_pos + 1].name),
                             <<"\n">>)
    /\ stdout' = stdout \cup {"appended_explanations"}
    /\ file_pos' = file_pos + 1
    /\ pc' = "expl_for"
    /\ UNCHANGED <<envVars, exit_status, stdout_text, output_files, setupVars,
                   loopVars, passVars, splitVars, callVars, alloc_args,
                   repoVars, expl_args, repo_exists, disk_files, out_exists,
                   cloned, python_files, code_lines, line_pos>>

NextExplain ==
    \/ ExplCheckRepo
    \/ ExplCleanOutput
    \/ ExplGlob
    \/ ExplOpenFile
    \/ ExplLine
    \/ ExplCloseFile

SpecExplain == InitExplain /\ [][NextExplain]_vars

\* ------------------------------------------------------------- stubs
\* The loop with a compressor that never reduces the token count: only the
\* passes whose document has at least as many tokens as the one before.
EndPassNonReducing == EndPass /\ current_tokens' >= current_tokens

NextNonReducing ==
    \/ CheckApiKey
    \/ ReadFile
    \/ Setup
    \/ WhileTest
    \/ SplitEnter
    \/ SplitStep
    \/ SplitReturn
    \/ CompressChunk
    \/ EndPassNonReducing
    \/ Report
    \/ Output

SpecNonReducing == Init /\ [][NextNonReducing]_vars

\* The loop with a compressor that halves the token count: only the passes
\* whose document has at most half the tokens of the one before, rounded up.
EndPassHalving == EndPass /\ 2 * current_tokens' <= current_tokens + 1

NextHalving ==
    \/ CheckApiKey
    \/ ReadFile
    \/ Setup
    \/ WhileTest
    \/ SplitEnter
    \/ SplitStep
    \/ SplitReturn
    \/ CompressChunk
    \/ EndPassHalving
    \/ Report
    \/ Output

SpecHalving == Init /\ [][NextHalving]_vars

\* ------------------------------------------------------------- claims
LoopStopped == pc \in {"report", "output", "done"}
Converged == current_tokens <= args.token_target
Exhausted == iteration = max_iterations /\ current_tokens > args.token_target
Reported == pc \in {"output", "done"}

\* the current document has been printed or written to the output file
Delivered ==
    IF args.return_str
    THEN "compressed_text" \in stdout /\ stdout_text = compressed_text
    ELSE output_files[OutputFile(args.json)] =
             [exists |-> TRUE, content |-> compressed_text]

\* C1: when the convergence loop has stopped, either the document is within
\* the target and "Compression successful." is what is reported, or 100
\* passes were made, the document is still above the target, the warning is
\* what is reported and the document is delivered all the same; the loop
\* never stops above the target with fewer than 100 passes.
C1_LoopOutcome ==
    /\ LoopStopped => (Converged \/ Exhausted)
    /\ LoopStopped => ~(current_tokens > args.token_target
                          /\ iteration < max_iterations)
    /\ (Reported /\ Converged) =>
          /\ "compression_successful" \in stdout
          /\ "maximum_iterations_reached" \notin stdout
    /\ (Reported /\ Exhausted) =>
          /\ "maximum_iterations_reached" \in stdout
          /\ "compression_successful" \notin stdout
    /\ pc = "done" => Delivered

C1_Witness ==
    /\ pc = "done" /\ Exhausted /\ Delivered
    /\ "maximum_iterations_reached" \in stdout

\* r is c without its leading and trailing whitespace
IsStripOf(r, c) ==
    /\ r # <<>> => (r[1] \notin Whitespace /\ r[Len(r)] \notin Whitespace)
    /\ \E i \in 0..Len(c) :
         /\ i + Len(r) <= Len(c)
         /\ SubSeq(c, i + 1, i + Len(r)) = r
         /\ \A k \in 1..Len(c) :
              (k <= i \/ k > i + Len(r)) => c[k] \in Whitespace

\* C5: a request whose call or whose response fails does not end the run:
\* the failure is logged, the chunk's output is the empty string and the
\* program is still in the pass, one chunk further; a request that succeeds
\* gives the response content without its surrounding whitespace.
C5_ChunkFailureAbsorbed ==
    (pc = "for" /\ idx > 0) =>
        /\ exit_status = -1
        /\ Len(compressed_chunks) = idx
        /\ last_outcome.kind # "ok" =>
              (chunk_error /\ compressed_chunks[idx] = <<>>)
        /\ last_outcome.kind = "ok" =>
              /\ ~chunk_error
              /\ IsStripOf(compressed_chunks[idx], last_outcome.content)
        /\ Len(requests) = idx
        /\ idx <= Len(chunks)

C5_Witness ==
    /\ pc = "for" /\ idx > 0 /\ idx < Len(chunks)
    /\ last_outcome.kind = "api_error" /\ chunk_error
    /\ compressed_chunks[idx] = <<>>

\* C6: with the credential unset or the input file missing the process
\* prints a message and exits with status 1 before any work: nothing is
\* split, no request is sent, no output file is written.
C6_ConfigErrorIsFatal ==
    (~env_api_key \/ ~file_exists) =>
        /\ pc \in {"check_key", "read_file", "exit"}
        /\ pc = "exit" =>
              /\ exit_status = 1
              /\ stdout \in {{"set_api_key"}, {"file_does_not_exist"}}
        /\ chunks = <<>> /\ tokens = <<>> /\ requests = <<>> /\ ~called
        /\ \A n \in OutputNames : output_files[n] = NoFile
        /\ stdout_text = <<>>

C6_Witness ==
    /\ pc = "exit" /\ ~env_api_key /\ exit_status = 1
    /\ stdout = {"set_api_key"}

\* C7 (as claimed): with a compressor that never reduces the token count and
\* an input above the target, the loop stops after exactly 100 passes, above
\* the target, and the text it returns is not empty.
C7_NonReducingExhausts ==
    (LoopStopped /\ total_tokens > args.token_target) =>
        /\ iteration = max_iterations
        /\ Exhausted
        /\ compressed_text # <<>>

\* least k with d * 2^k >= n, for d >= 1: ceil(log2(n / d)) when n > d
RECURSIVE CeilLog2(_, _)
CeilLog2(n, d) == IF d >= n THEN 0 ELSE 1 + CeilLog2(n, 2 * d)

AfterSetup == pc \notin {"check_key", "read_file", "setup", "exit"}

\* C8: with a compressor that halves the token count and an input above a
\* target of at least one token, the loop makes at most
\* ceil(log2(initialTokens / targetTokens)) passes and stops within the
\* target.
C8_HalvingConverges ==
    (AfterSetup /\ args.token_target >= 1
       /\ total_tokens > args.token_target) =>
        /\ iteration <= CeilLog2(total_tokens, args.token_target)
        /\ LoopStopped => Converged

C8_Witness ==
    /\ pc = "done" /\ args.token_target = 1 /\ total_tokens = 3
    /\ iteration = 2 /\ Converged

\* C9: every template of the table get_prompts returned holds the directive
\* " and format the output as JSON" exactly when the JSON flag is set, none
\* holds a placeholder {json_spec}, and the same is true of every prompt
\* sent in the run.
C9_JsonDirective ==
    AfterSetup =>
        /\ \A s \in Styles :
             /\ (JsonDirective \in Pieces(prompts[s])) <=> args.json
             /\ "{json_spec}" \notin Pieces(prompts[s])
        /\ \A i \in 1..Len(requests) :
             /\ (JsonDirective \in Pieces(requests[i].template)) <=> args.json
             /\ "{json_spec}" \notin Pieces(requests[i].template)

C9_Witness ==
    /\ args.json /\ Len(requests) >= 1
    /\ JsonDirective \in Pieces(requests[1].template)

\* the tokens of chunk i according to the counts of the chunks before it
ChunkRange(toks, counts, i) ==
    LET before == Sum(SubSeq(counts, 1, i - 1))
    IN  SubSeq(toks, before + 1, before + counts[i])

\* C2: for max_chunk_size >= 1 the chunks are the consecutive ranges of the
\* text's token sequence given by their counts, every count is between 1 and
\* max_chunk_size, and the counts add up to the token count of the text,
\* which is total_chunk_tokens in the loop.
C2_SplitPartitions ==
    (pc = "for" /\ max_chunk_size >= 1) =>
        LET toks == encode(encoding, compressed_text)
        IN  /\ Len(chunks) = Len(chunk_token_counts)
            /\ \A i \in 1..Len(chunks) :
                 /\ chunk_token_counts[i] \in 1..max_chunk_size
                 /\ chunks[i] = decode(ChunkRange(toks, chunk_token_counts, i))
            /\ Sum(chunk_token_counts) = Len(toks)
            /\ total_chunk_tokens = current_tokens

C2_Witness ==
    /\ pc = "for" /\ max_chunk_size = 2 /\ Len(chunks) = 2
    /\ chunk_token_counts = <<2, 1>>
    /\ chunks[1] = <<"a", " ", "a">>

\* C3: for chunk_tokens_len <= total_tokens_len and aggression_factor >= 1,
\* whatever token_target, the allocator returns an integer that is >= 1.
C3_AllocAtLeastOne ==
    (pc = "alloc_done"
       /\ alloc_args.chunk_tokens_len <= alloc_args.total_tokens_len
       /\ RGeq(alloc_args.aggression_factor, Rat(1, 1))) =>
        (target_word_count \in Int /\ target_word_count >= 1)

C3_Witness ==
    /\ pc = "alloc_done"
    /\ alloc_args.chunk_tokens_len <= alloc_args.total_tokens_len
    /\ RGeq(alloc_args.aggression_factor, Rat(1, 1))
    /\ alloc_args.token_target < 0
    /\ target_word_count = 1

\* the formula of the specification, with math.floor and with the share
\* taken as 0 when totalTokens is 0
ReferenceTargetWords(chunkTokens, totalTokens, globalTokenTarget, aggressionFactor) ==
    LET share == IF totalTokens = 0 THEN Rat(0, 1)
                 ELSE Rat(chunkTokens, totalTokens)
        words == RDiv(RDiv(RMul(share, Rat(globalTokenTarget, 1)),
                           aggressionFactor),
                      Rat(13, 10))
    IN  Max(Floor(words), 1)

\* C4: the allocator returns max(floor(((chunkTokens / totalTokens) *
\* globalTokenTarget) / aggressionFactor / 1.3), 1), the share being 0 when
\* totalTokens is 0, for all token counts, every target of either sign and
\* every aggression factor the formula has a value for (any but 0); with
\* totalTokens = 0 it returns 1 whatever the other arguments.
C4_AllocMatchesFormula ==
    pc = "alloc_done" =>
        /\ alloc_args.aggression_factor.num # 0 =>
              target_word_count =
                  ReferenceTargetWords(alloc_args.chunk_tokens_len,
                                       alloc_args.total_tokens_len,
                                       alloc_args.token_target,
                                       alloc_args.aggression_factor)
        /\ alloc_args.total_tokens_len = 0 => target_word_count = 1

C4_Witness ==
    /\ pc = "alloc_done"
    /\ alloc_args.chunk_tokens_len = 3 /\ alloc_args.total_tokens_len = 4
    /\ alloc_args.token_target = 6
    /\ alloc_args.aggression_factor = Rat(6, 5)
    /\ target_word_count = 2

\* C10: an unknown model name is never fatal when the tokenizer is chosen.
\* In the text compressor's main it gives cl100k_base and the limit
\* 4096 - 1000; in compress_repository it gives cl100k_base and no KeyError
\* is raised.
C10_UnknownModelNotFatal ==
    /\ (model_max_tokens # 0 /\ args.model_name \notin DOMAIN TiktokenModels)
          => (encoding = "cl100k_base" /\ model_max_tokens = 4096 - 1000)
    /\ (pc # "repo_enter" /\ repo_args.model_name \notin DOMAIN TiktokenModels)
          => (encoding = "cl100k_base" /\ repo_result.value # <<"KeyError">>)

\* the loop body of main: lines 107-120
InLoop == pc \in {"split_enter", "split_loop", "for"}

\* C11 (as claimed): a token_target that is not positive is rejected before
\* the loop: the loop body is never entered and no request is sent.
C11_TargetValidated ==
    args.token_target <= 0 => (~InLoop /\ ~called /\ requests = <<>>)

\* C12 (as claimed): the running counter of compress_repository never
\* exceeds token_target, and the text it returns, headers and separators
\* included, has at most token_target tokens.
C12_OutputWithinTarget ==
    /\ current_tokens <= repo_args.token_target
    /\ repo_result.kind = "returned" =>
          Len(encode(encoding, repo_result.value)) <= repo_args.token_target

\* C13: in the code explainer, when repo_path does not exist and no
\* --repo_url is given, the only step main takes prints the message and
\* exits with status 1: nothing is cloned, no directory is created, the
\* output directory and its files stay as they are, no explanation is
\* requested; and main takes no step after it.
C13_ExitsWithoutRepo ==
    [][(~repo_exists /\ expl_args.repo_url = "") =>
          /\ pc = "expl_check" /\ pc' = "exit"
          /\ exit_status' = 1
          /\ "repo_path_does_not_exist" \in stdout'
          /\ ~cloned' /\ ~repo_exists' /\ disk_files' = disk_files
          /\ out_exists' = out_exists /\ out_files' = out_files
          /\ requests' = <<>> /\ ~called']_vars

C13_Witness ==
    /\ pc = "exit" /\ exit_status = 1
    /\ ~repo_exists /\ expl_args.repo_url = ""
    /\ stdout = {"repo_path_does_not_exist"}
    /\ out_exists /\ out_files # <<>>
    /\ ~cloned /\ requests = <<>>

\* split_text_into_chunks has returned for a text within max_chunk_size
WithinOneChunk ==
    /\ pc = "for"
    /\ Len(encode(encoding, compressed_text)) <= max_chunk_size

\* C14 (as claimed): a document of at most max_chunk_size tokens, the empty
\* document included, is split into exactly one chunk, the whole document.
C14_SingleChunk ==
    WithinOneChunk => chunks = <<compressed_text>>

\* C14 (amended): a document of 1 to max_chunk_size tokens is split into
\* exactly one chunk, the whole document, with its token count; the empty
\* document is split into no chunk at all.
C14_SingleChunkUnlessEmpty ==
    WithinOneChunk =>
        IF compressed_text # <<>>
        THEN /\ chunks = <<compressed_text>>
             /\ chunk_token_counts = <<Len(encode(encoding, compressed_text))>>
        ELSE chunks = <<>> /\ chunk_token_counts = <<>>

C14_Witness ==
    /\ WithinOneChunk
    /\ max_chunk_size = 2
    /\ compressed_text = <<"a", " ", "a">>
    /\ chunks = <<compressed_text>>

\* the outputs in their order, a line break between neighbours
RECURSIVE Reassembled(_)
Reassembled(outs) ==
    IF outs = <<>> THEN <<>>
    ELSE IF Len(outs) = 1 THEN outs[1]
    ELSE Reassembled(SubSeq(outs, 1, Len(outs) - 1))
            \o <<"\n">> \o outs[Len(outs)]

TotalLen(outs) == Sum([i \in 1..Len(outs) |-> Len(outs[i])])

\* C15: in a pass the requests are one per chunk, in chunk order; a step of
\* the for loop adds one request and one output and redoes neither; the pass
\* ends only after the last chunk, and the next document is the outputs in
\* chunk order with one line break between neighbours (chunks - 1 of them).
C15_OncePerChunkInOrder ==
    [][/\ pc' = "for" =>
            /\ Len(requests') = idx' /\ Len(compressed_chunks') = idx'
            /\ idx' <= Len(chunks')
            /\ \A i \in 1..idx' : requests'[i].chunk_string = chunks'[i]
       /\ (pc = "for" /\ pc' = "for") =>
            /\ idx' = idx + 1
            /\ SubSeq(requests', 1, idx) = requests
            /\ SubSeq(compressed_chunks', 1, idx) = compressed_chunks
            /\ chunks' = chunks
       /\ (pc = "for" /\ pc' # "for") =>
            /\ idx = Len(chunks)
            /\ compressed_text' = Reassembled(compressed_chunks)
            /\ Len(chunks) >= 1 =>
                  Len(compressed_text') =
                      TotalLen(compressed_chunks) + Len(chunks) - 1]_vars

C15_Witness ==
    /\ pc = "while" /\ iteration = 1
    /\ file_text = <<"a", " ", "a">>
    /\ compressed_text = <<"\n", "a">>

\* the loop of main is running: lines 106-120
Running == pc = "while" \/ InLoop

\* what is left of the current pass: the while test, the call of the
\* splitter, the tokens still to slice, the chunks still to compress
PassRank ==
    CASE pc = "while" -> 3 + 2 * current_tokens
      [] pc = "split_enter" -> 2 + 2 * current_tokens
      [] pc = "split_loop" -> 1 + Len(chunks) + 2 * (Len(tokens) - start)
      [] pc = "for" -> Len(chunks) - idx
      [] OTHER -> 0

\* the statement the loop is at can be executed: the slicing loop has room
\* for its next chunk and the service has an answer the document can hold
CanStep ==
    /\ (pc = "split_loop" /\ start < Len(tokens)) => Len(chunks) < MaxChunks
    /\ (pc = "for" /\ idx < Len(chunks)) =>
          \E outcome \in Outcomes :
             Len(Join(<<"\n">>, Append(compressed_chunks,
                                       IF outcome.kind = "ok"
                                       THEN Strip(outcome.content) ELSE <<>>)))
                 + (Len(chunks) - idx - 1) <= MaxTextLen

\* C16: iteration is 0 when the loop is first tested, grows by exactly one
\* per pass and only at the end of a pass, and never exceeds 100; while the
\* loop runs a step is always possible, and every step either ends a pass
\* or brings the pass nearer to its end, so the loop is left after finitely
\* many steps; once left it is not entered again, no request is sent and the
\* document and the iteration count stay as they are; and an input within
\* the target is delivered unchanged after zero passes and no request.
C16_LoopTerminates ==
    [][/\ pc = "setup" => (pc' = "while" /\ iteration' = 0)
       /\ iteration' \in 0..max_iterations
       /\ iteration' # iteration =>
             (pc = "for" /\ pc' = "while" /\ iteration' = iteration + 1)
       /\ (pc = "for" /\ pc' = "while") => iteration' = iteration + 1
       /\ Running => (PassRank >= 0 /\ PassRank' >= 0)
       /\ Running => (iteration' = iteration + 1 \/ PassRank' < PassRank)
       /\ Running' => CanStep'
       /\ LoopStopped =>
             /\ LoopStopped'
             /\ compressed_text' = compressed_text
             /\ iteration' = iteration
             /\ requests' = requests /\ called' = called
       /\ (LoopStopped' /\ total_tokens' <= args.token_target) =>
             /\ iteration' = 0 /\ ~called'
             /\ compressed_text' = large_text
             /\ pc' = "done" => Delivered']_vars

C16_Witness ==
    /\ pc = "done" /\ iteration = 0 /\ ~called
    /\ file_text = <<"a", " ", "a">> /\ args.token_target = 2
    /\ compressed_text = file_text
    /\ Delivered

\* C17 (as claimed): for every text and every integer max_chunk_size, each
\* pass of the slicing loop moves start strictly forward, so there are never
\* more chunks than tokens and the loop ends.
C17_SplitTerminates ==
    [][(pc = "split_loop" /\ pc' = "split_loop") =>
          /\ start' > start
          /\ Len(chunks') <= Len(tokens')]_vars

====
